---- MODULE Spec2Model ----
(***************************************************************************)
(* Model of WorkloadScoring (projects/workload_scoring/lib.py).            *)
(*                                                                         *)
(* Dates are day numbers.  Every float the code rounds with round(x, 2)    *)
(* is held as an integer number of hundredths (3.00 is 300, 0.58 is 58).   *)
(* raw_df is a sequence of rows [id, updated, assignee_id, country]; the   *)
(* column `created` is never read by workload_scoring and is left out.     *)
(* An exception leaving a method is recorded in `ret` by its class name.   *)
(***************************************************************************)
EXTENDS Integers, Sequences, FiniteSets, TLC

VARIABLES
  table,       \* the rows the BigQuery table holds (never written here)
  args,        \* the arguments the caller passes to workload_scoring
  raw_df,      \* self.raw_df
  out_df,      \* self.out_df
  ret,         \* how the last workload_scoring call ended
  data,        \* the local dict `data` when that call ended
  iterations,  \* the passes of the loop of line 173 that call entered
  df_slice,    \* one partition's rows
  intervals,   \* its [fst_cur_date, snd_cur_date] pairs
  num_tasks_per_week,
  num_tasks_per_current_week,
  stats,       \* avg, x_sum, var, std, ste and the two borders
  score_value,
  pc,          \* "start", or "done" once a partition's values are computed
  np_round     \* whether round() of a numpy.float64 is numpy's own rounding
               \* (TRUE) or the one inherited from float (FALSE)

vars == <<table, args, raw_df, out_df, ret, data, iterations, df_slice,
          intervals, num_tasks_per_week, num_tasks_per_current_week, stats,
          score_value, pc, np_round>>

objVars == <<raw_df, out_df, ret, data, iterations>>

fnVars == <<df_slice, intervals, num_tasks_per_week,
            num_tasks_per_current_week, stats, score_value, pc, np_round>>

\* Python's None.  A DataFrame is [rows |-> <<...>>] (raw_df) or a mapping
\* from column names to lists (out_df), so None differs from all of them.
None == [none |-> TRUE]

\* How a call ends is a string: the class of the exception it raises, or
\* what it returns.
NoException == "no exception"

ReturnedNone == "None"

(***************************************************************************)
(* Bounds of the model.                                                    *)
(***************************************************************************)
MaxRows == 2

MaxDays == 5

MaxCount == 4

MaxBaseline == 3

----------------------------------------------------------------------------
(***************************************************************************)
(* Arithmetic.                                                             *)
(***************************************************************************)
Abs(x) == IF x < 0 THEN -x ELSE x

\* int(a / b) for b # 0: true division, then truncation toward zero.
TruncDiv(a, b) ==
  IF (a >= 0) = (b > 0) THEN Abs(a) \div Abs(b) ELSE -(Abs(a) \div Abs(b))

\* The integer nearest to num / den (den > 0), a tie going to the even one:
\* round(x, 2) of a numpy.float64, in hundredths.
RoundHalfEven(num, den) ==
  LET q == num \div den
      r == num % den
  IN  IF 2 * r < den THEN q
      ELSE IF 2 * r > den THEN q + 1
      ELSE IF q % 2 = 0 THEN q ELSE q + 1

RECURSIVE ISqrtIn(_, _, _)
ISqrtIn(m, lo, hi) ==
  IF lo >= hi THEN lo
  ELSE LET mid == (lo + hi + 1) \div 2
       IN  IF mid <= m \div mid THEN ISqrtIn(m, mid, hi)
           ELSE ISqrtIn(m, lo, mid - 1)

\* floor(sqrt(m)) for m >= 0.
ISqrt(m) == ISqrtIn(m, 0, m)

RECURSIVE SumSeq(_)
SumSeq(s) == IF s = <<>> THEN 0 ELSE Head(s) + SumSeq(Tail(s))

----------------------------------------------------------------------------
(***************************************************************************)
(* Baseline statistics, lines 201-216.  avg, x, x_sum and var are          *)
(* numpy.float64 values.  numpy's round(x, 2) scales by 100 and rounds     *)
(* half to even; float's gives the hundredth nearest to the binary value,  *)
(* which differs only where the decimal value is a tie.  Of these four     *)
(* only var meets a tie, and only with 4 history counts.  std and ste are  *)
(* Python floats (math.sqrt returns one).                                  *)
(***************************************************************************)

\* line 201: round(np.mean(num_tasks_per_week), 2); np.mean([]) is nan.
AvgNumOfTaskPerWeek(ntpw) ==
  IF ntpw = <<>> THEN "nan"
  ELSE RoundHalfEven(100 * SumSeq(ntpw), Len(ntpw))

\* lines 205-208: x = round((num - avg) ** 2, 2) for every baseline count.
XValues(ntpw, avg) ==
  [i \in 1..Len(ntpw) |->
     RoundHalfEven((100 * ntpw[i] - avg) * (100 * ntpw[i] - avg), 100)]

\* line 210: round(sum(x_values), 2).
XSum(x_values) == SumSeq(x_values)

\* line 211: x_sum / (num_of_intervals - 1) raises when there is one
\* interval (x_sum is then the int 0, and 0 / 0 raises).
VarError(num_of_intervals) ==
  IF num_of_intervals - 1 = 0 THEN "ZeroDivisionError" ELSE NoException

\* x_sum / 4 is exact in binary, so float's round decides a tie by the
\* side on which the double nearest to x_sum lies: above it for these x_sum
\* (hundredths, below 50.00).
DoubleIsAbove(x_sum) ==
  (x_sum >= 200 /\ x_sum < 1600) \/ (x_sum >= 3200 /\ x_sum < 5000)

\* Mutant of Var: the sample variance, one less in the divisor.
VarSample(x_sum, num_of_intervals) ==
  IF num_of_intervals - 2 <= 0 THEN 0
  ELSE RoundHalfEven(x_sum, num_of_intervals - 2)

\* line 211: round(x_sum / (num_of_intervals - 1), 2).  With no interval
\* x_sum is 0 and the quotient is -0.0.
Var(x_sum, num_of_intervals) ==
  IF num_of_intervals - 1 < 0 THEN 0
  ELSE IF np_round \/ 2 * (x_sum % (num_of_intervals - 1))
                        # num_of_intervals - 1
    THEN RoundHalfEven(x_sum, num_of_intervals - 1)
  ELSE IF DoubleIsAbove(x_sum)
    THEN (x_sum \div (num_of_intervals - 1)) + 1
  ELSE x_sum \div (num_of_intervals - 1)

\* line 212: round(mt.sqrt(var), 2).  100 * sqrt(var / 100) = sqrt(100 * var)
\* is never half-way between two integers.
Std(var) ==
  LET m == 100 * var
      s == ISqrt(m)
  IN  IF m - s * s > s THEN s + 1 ELSE s

\* The odd std (hundredths, below 4.00) for which round(std / 2.0, 2) goes
\* up: std / 2.0 is exact in binary, so the decimal tie is decided by the
\* side on which the double nearest to std lies.
HalfRoundsUp ==
  {1, 5, 7, 11, 13, 17, 19, 23, 27, 33, 39, 45, 51, 53, 55, 63, 65, 67,
   75, 77, 79, 81, 89, 91, 93, 101, 103, 105, 107, 109, 111, 127, 129,
   131, 133, 135, 137, 151, 153, 155, 157, 159, 161, 175, 177, 179, 181,
   183, 185, 187, 227, 229, 231, 233, 235, 237, 239, 241, 243, 245, 247,
   249, 275, 277, 279, 281, 283, 285, 287, 289, 291, 293, 295, 297, 299,
   327, 329, 331, 333, 335, 337, 339, 341, 343, 345, 347, 349, 375, 377,
   379, 381, 383, 385, 387, 389, 391, 393, 395, 397, 399}

\* line 213: mt.sqrt of a negative raises ValueError, division by
\* mt.sqrt(0) raises ZeroDivisionError.
SteError(num_of_intervals) ==
  IF num_of_intervals < 0 THEN "ValueError"
  ELSE IF num_of_intervals = 0 THEN "ZeroDivisionError"
  ELSE NoException

\* line 213: round(std / mt.sqrt(num_of_intervals), 2), num_of_intervals > 0.
\* s is the floor of std / sqrt(num_of_intervals); an exact decimal tie
\* needs sqrt(num_of_intervals) to be even: within MaxDays, 4 intervals.
Ste(std, num_of_intervals) ==
  LET n == num_of_intervals
      s == ISqrt((std * std) \div n)
      up == n * (2 * s + 1) * (2 * s + 1)
  IN  IF 4 * std * std > up THEN s + 1
      ELSE IF 4 * std * std < up THEN s
      ELSE IF std \in HalfRoundsUp THEN s + 1 ELSE s

\* int(x) of a float held in hundredths: truncation toward zero.
IntOf(h) == IF h >= 0 THEN h \div 100 ELSE -((-h) \div 100)

\* line 215
LeftBorder(avg, ste) == IntOf(avg - ste)

\* line 216
RightBorder(avg, ste) == IntOf(avg + ste)

\* Mutant of CalcWorkloadScore: lines 405-406 left out.
CalcWorkloadScoreNoIdle(left_board, right_board, current_num_of_tasks) ==
  IF (current_num_of_tasks >= 0) /\ (current_num_of_tasks < left_board)
    THEN 0
  ELSE IF (current_num_of_tasks >= left_board)
          /\ (current_num_of_tasks <= right_board)
    THEN 1
  ELSE 2

\* Mutant of CalcWorkloadScore: line 407 with <= for <.
CalcWorkloadScoreLe(left_board, right_board, current_num_of_tasks) ==
  IF (left_board = 0) /\ (current_num_of_tasks = 0) /\ (right_board = 0)
    THEN 0
  ELSE IF (current_num_of_tasks >= 0) /\ (current_num_of_tasks <= left_board)
    THEN 0
  ELSE IF (current_num_of_tasks >= left_board)
          /\ (current_num_of_tasks <= right_board)
    THEN 1
  ELSE 2

\* lines 403-414
CalcWorkloadScore(left_board, right_board, current_num_of_tasks) ==
  IF (left_board = 0) /\ (current_num_of_tasks = 0) /\ (right_board = 0)
    THEN 0
  ELSE IF (current_num_of_tasks >= 0) /\ (current_num_of_tasks < left_board)
    THEN 0
  ELSE IF (current_num_of_tasks >= left_board)
          /\ (current_num_of_tasks <= right_board)
    THEN 1
  ELSE 2

\* lines 201-216 for one partition: the values computed, or the exception
\* raised on the way (exc), in program order.
CalcStats(ntpw, num_of_intervals) ==
  IF VarError(num_of_intervals) # NoException
    THEN [exc |-> VarError(num_of_intervals)]
  ELSE IF SteError(num_of_intervals) # NoException
    THEN [exc |-> SteError(num_of_intervals)]
  ELSE LET avg == AvgNumOfTaskPerWeek(ntpw)
           x_sum == XSum(XValues(ntpw, avg))
           var == Var(x_sum, num_of_intervals)
           std == Std(var)
           ste == Ste(std, num_of_intervals)
       IN  [exc |-> NoException, avg |-> avg, x_sum |-> x_sum, var |-> var,
            std |-> std, ste |-> ste,
            left_border |-> LeftBorder(avg, ste),
            right_border |-> RightBorder(avg, ste)]

----------------------------------------------------------------------------
(***************************************************************************)
(* Windows, lines 176-199.                                                 *)
(***************************************************************************)

\* line 185: int(num_of_all_days / num_of_interval_days)
NumOfIntervals(num_of_all_days, num_of_interval_days) ==
  TruncDiv(num_of_all_days, num_of_interval_days)

\* lines 179, 192: fst_cur_date at iteration i (from 0) of the loop.
FstCurDate(end_date, num_of_all_days, num_of_interval_days, i) ==
  (end_date - num_of_all_days) + i * num_of_interval_days

\* lines 183, 193: snd_cur_date at iteration i.
SndCurDate(end_date, num_of_all_days, num_of_interval_days, i) ==
  FstCurDate(end_date, num_of_all_days, num_of_interval_days, i)
    + num_of_interval_days

\* Mutant of DfInterval: the end of the interval left out.
DfIntervalHalfOpen(slice, fst, snd) ==
  SelectSeq(slice, LAMBDA r : (r.updated >= fst) /\ (r.updated < snd))

\* lines 189-190: the rows of the slice inside [fst, snd].
DfInterval(slice, fst, snd) ==
  SelectSeq(slice, LAMBDA r : (r.updated >= fst) /\ (r.updated <= snd))

\* lines 196, 199: len(np.unique(df_interval['id']))
NumOfTasks(df_interval) ==
  Cardinality({df_interval[j].id : j \in DOMAIN df_interval})

\* The [fst_cur_date, snd_cur_date] pairs of the loop, oldest first.
Intervals(end_date, num_of_all_days, num_of_interval_days) ==
  [k \in 1..NumOfIntervals(num_of_all_days, num_of_interval_days) |->
     <<FstCurDate(end_date, num_of_all_days, num_of_interval_days, k - 1),
       SndCurDate(end_date, num_of_all_days, num_of_interval_days, k - 1)>>]

\* lines 186-197: the history counts, all intervals but the last.
NumTasksPerWeek(slice, end_date, num_of_all_days, num_of_interval_days) ==
  LET iv == Intervals(end_date, num_of_all_days, num_of_interval_days)
  IN  [k \in 1..(Len(iv) - 1) |->
         NumOfTasks(DfInterval(slice, iv[k][1], iv[k][2]))]

\* line 199: the count of the last interval (one interval at least).
NumTasksPerCurrentWeek(slice, end_date, num_of_all_days,
                       num_of_interval_days) ==
  LET iv == Intervals(end_date, num_of_all_days, num_of_interval_days)
  IN  NumOfTasks(DfInterval(slice, iv[Len(iv)][1], iv[Len(iv)][2]))

----------------------------------------------------------------------------
(***************************************************************************)
(* One pass of the loop of line 173, from the slice on (lines 176-218).    *)
(***************************************************************************)
PartitionScore(slice, end_date, num_of_all_days, num_of_interval_days, st) ==
  IF st.exc # NoException THEN [exc |-> st.exc]
  ELSE [exc |-> NoException,
        intervals |-> Intervals(end_date, num_of_all_days,
                                num_of_interval_days),
        num_tasks_per_week |->
          NumTasksPerWeek(slice, end_date, num_of_all_days,
                          num_of_interval_days),
        num_tasks_per_current_week |->
          NumTasksPerCurrentWeek(slice, end_date, num_of_all_days,
                                 num_of_interval_days),
        stats |-> st,
        score_value |->
          CalcWorkloadScore(st.left_border, st.right_border,
                            NumTasksPerCurrentWeek(slice, end_date,
                                                   num_of_all_days,
                                                   num_of_interval_days))]

\* line 185 divides by num_of_interval_days; lines 201-216 follow the loop
\* of line 188, line 218 scores the last interval.
PartitionBody(slice, end_date, num_of_all_days, num_of_interval_days) ==
  IF num_of_interval_days = 0 THEN [exc |-> "ZeroDivisionError"]
  ELSE PartitionScore(slice, end_date, num_of_all_days, num_of_interval_days,
                      CalcStats(NumTasksPerWeek(slice, end_date,
                                                num_of_all_days,
                                                num_of_interval_days),
                                NumOfIntervals(num_of_all_days,
                                               num_of_interval_days)))

----------------------------------------------------------------------------
(***************************************************************************)
(* The partitions, lines 158-174 and 395-401.                              *)
(***************************************************************************)
StatColumns ==
  {"score_value", "count_last_period", "count_sem_calc_period",
   "count_mean_calc_period"}

Range(s) == {s[i] : i \in DOMAIN s}

\* Mutant of NewData: the lists of the last output table are kept.
NewDataKept(columns_list) ==
  IF out_df # None
       /\ DOMAIN out_df = StatColumns \cup Range(columns_list)
    THEN out_df
  ELSE [c \in StatColumns \cup Range(columns_list) |-> <<>>]

\* lines 158-167: the dict of empty lists, one per output column.
NewData(columns_list) ==
  [c \in StatColumns \cup Range(columns_list) |-> <<>>]

\* line 169: Series.unique(), the distinct values in order of appearance.
RECURSIVE Unique(_, _)
Unique(rows, column) ==
  IF rows = <<>> THEN <<>>
  ELSE LET front == Unique(SubSeq(rows, 1, Len(rows) - 1), column)
           v == rows[Len(rows)][column]
       IN  IF v \in Range(front) THEN front ELSE Append(front, v)

\* lines 165-169
ColUniqueVals(raw, columns_list) ==
  [i \in DOMAIN columns_list |-> Unique(raw, columns_list[i])]

RECURSIVE Flatten(_)
Flatten(ss) == IF ss = <<>> THEN <<>> ELSE Head(ss) \o Flatten(Tail(ss))

\* Mutant of CartesianProduct: zip(*col_unique_vals), the k-th values of
\* all columns together.
CartesianProductZip(col_unique_vals) ==
  IF col_unique_vals = <<>> THEN << <<>> >>
  ELSE [k \in 1..(CHOOSE n \in 0..Len(col_unique_vals[1]) :
                   /\ \A i \in DOMAIN col_unique_vals :
                        n <= Len(col_unique_vals[i])
                   /\ \E i \in DOMAIN col_unique_vals :
                        n = Len(col_unique_vals[i])) |->
          [i \in DOMAIN col_unique_vals |-> col_unique_vals[i][k]]]

\* line 171: list(it.product(*col_unique_vals)); the last column varies
\* fastest, and the product of no column is the one empty tuple.
RECURSIVE CartesianProduct(_)
CartesianProduct(col_unique_vals) ==
  IF col_unique_vals = <<>> THEN << <<>> >>
  ELSE LET rest == CartesianProduct(Tail(col_unique_vals))
           first == Head(col_unique_vals)
       IN  Flatten([i \in DOMAIN first |->
                      [j \in DOMAIN rest |-> <<first[i]>> \o rest[j]]])

\* lines 395-401: with no column the mask stays True, and raw_df[True]
\* looks up a column named True.
SliceError(columns) == IF columns = <<>> THEN "KeyError" ELSE NoException

\* lines 395-401: the rows equal to `values` on every column.
GetDataframeSlice(raw, columns, values) ==
  SelectSeq(raw, LAMBDA r : \A i \in DOMAIN columns :
                               r[columns[i]] = values[i])

\* The values lines 225-226 append to data[c], in the order of the loop.
RECURSIVE Appended(_, _, _)
Appended(c, columns_list, values) ==
  IF columns_list = <<>> THEN <<>>
  ELSE (IF Head(columns_list) = c THEN <<Head(values)>> ELSE <<>>)
         \o Appended(c, Tail(columns_list), Tail(values))

\* lines 220-226
AppendRow(d, columns_list, values, body) ==
  [c \in DOMAIN d |->
     IF c = "score_value" THEN Append(d[c], body.score_value)
     ELSE IF c = "count_last_period"
       THEN Append(d[c], body.num_tasks_per_current_week)
     ELSE IF c = "count_sem_calc_period" THEN Append(d[c], body.stats.ste)
     ELSE IF c = "count_mean_calc_period" THEN Append(d[c], body.stats.avg)
     ELSE d[c] \o Appended(c, columns_list, values)]

\* lines 173-226 from the k-th tuple on: the dict at the end, the passes
\* entered and the exception that ended the loop, if any.
RECURSIVE Loop(_, _, _, _, _)
LoopPass(raw, a, cartesian_product, k, d, body) ==
  IF body.exc # NoException
    THEN [exc |-> body.exc, data |-> d, iterations |-> k]
  ELSE Loop(raw, a, cartesian_product, k + 1,
            AppendRow(d, a.columns_list, cartesian_product[k], body))

Loop(raw, a, cartesian_product, k, d) ==
  IF k > Len(cartesian_product)
    THEN [exc |-> NoException, data |-> d, iterations |-> k - 1]
  ELSE IF SliceError(a.columns_list) # NoException
    THEN [exc |-> SliceError(a.columns_list), data |-> d, iterations |-> k]
  ELSE LoopPass(raw, a, cartesian_product, k, d,
                PartitionBody(GetDataframeSlice(raw, a.columns_list,
                                                cartesian_product[k]),
                              a.end_date, a.num_of_all_days,
                              a.num_of_interval_days))

\* line 228: pd.DataFrame(data=data) wants lists of one length.
DataFrameError(d) ==
  IF \E c1, c2 \in DOMAIN d : Len(d[c1]) # Len(d[c2])
    THEN "ValueError" ELSE NoException

\* line 228: self.out_df is assigned when nothing was raised.
ScoringEnd(r, old_out) ==
  IF r.exc # NoException
    THEN [ret |-> r.exc, data |-> r.data, iterations |-> r.iterations,
          out_df |-> old_out]
  ELSE IF DataFrameError(r.data) # NoException
    THEN [ret |-> DataFrameError(r.data), data |-> r.data,
          iterations |-> r.iterations, out_df |-> old_out]
  ELSE [ret |-> ReturnedNone, data |-> r.data, iterations |-> r.iterations,
        out_df |-> r.data]

\* lines 158-228, raw_df loaded: how the call ends, its dict, the passes
\* entered, and self.out_df afterwards.
Scoring(raw, a, old_out) ==
  ScoringEnd(Loop(raw, a,
                  CartesianProduct(ColUniqueVals(raw, a.columns_list)), 1,
                  NewData(a.columns_list)),
             old_out)

\* Mutant of WorkloadScoringCall: no early return, and None[column] raises.
WorkloadScoringCallUnchecked(raw, a, old_out) ==
  IF raw = None
    THEN [ret |-> "TypeError", data |-> NewData(a.columns_list),
          iterations |-> 0, out_df |-> old_out]
  ELSE Scoring(raw.rows, a, old_out)

\* lines 155-228: the whole call.
WorkloadScoringCall(raw, a, old_out) ==
  IF raw = None
    THEN [ret |-> "load data", data |-> None, iterations |-> 0,
          out_df |-> old_out]
  ELSE Scoring(raw.rows, a, old_out)

----------------------------------------------------------------------------
(***************************************************************************)
(* The inputs.                                                             *)
(***************************************************************************)
Columns == {"assignee_id", "country"}

AssigneeIds == {"1", "2"}

Countries == {"usa", "russia"}

EndDate == MaxDays

\* The rows of a table: one task, finished the day before end_date or two
\* days earlier.
TableDates == {EndDate - 3, EndDate - 1}

Records ==
  [id : {1}, updated : TableDates, assignee_id : AssigneeIds,
   country : Countries]

SeqsUpTo(S, n) == UNION {[1..k -> S] : k \in 0..n}

\* read_table's query ends in ORDER BY updated.
OrderedByUpdated(rows) ==
  \A i, j \in DOMAIN rows : i < j => rows[i].updated <= rows[j].updated

Tables == {t \in SeqsUpTo(Records, MaxRows) : OrderedByUpdated(t)}

ColumnLists == SeqsUpTo(Columns, 2)

IntervalDays == {-1, 0, 1, 2}

Args ==
  [columns_list : ColumnLists, num_of_all_days : 0..MaxDays,
   num_of_interval_days : IntervalDays, end_date : {EndDate}]

----------------------------------------------------------------------------
(***************************************************************************)
(* The object: __init__, read_table, workload_scoring.                     *)
(***************************************************************************)
FnIdle ==
  /\ df_slice = <<>>
  /\ intervals = <<>>
  /\ num_tasks_per_week = <<>>
  /\ num_tasks_per_current_week = 0
  /\ stats = None
  /\ score_value = 0
  /\ pc = "start"
  /\ np_round \in BOOLEAN

\* lines 77-78
Init ==
  /\ table \in Tables
  /\ args \in Args
  /\ raw_df = None
  /\ out_df = None
  /\ ret = "no call"
  /\ data = None
  /\ iterations = 0
  /\ FnIdle

\* lines 298-323, every column asked for with an empty list of values.
ReadTable ==
  /\ raw_df' = [rows |-> table]
  /\ UNCHANGED <<table, args, out_df, ret, data, iterations, fnVars>>

\* lines 155-228
WorkloadScoring ==
  \E r \in {WorkloadScoringCall(raw_df, args, out_df)} :
    /\ ret' = r.ret
    /\ data' = r.data
    /\ iterations' = r.iterations
    /\ out_df' = r.out_df
    /\ UNCHANGED <<table, args, raw_df, fnVars>>

Next == ReadTable \/ WorkloadScoring

Spec == Init /\ [][Next]_vars

----------------------------------------------------------------------------
(***************************************************************************)
(* One pass of the loop on its own: lines 176-218 applied to a slice.      *)
(***************************************************************************)
ObjIdle ==
  /\ table = <<>>
  /\ raw_df = None
  /\ out_df = None
  /\ ret = "no call"
  /\ data = None
  /\ iterations = 0

SliceRecords ==
  [id : {1, 2}, updated : 0..MaxDays, assignee_id : {"1"},
   country : {"usa"}]

Slices == {t \in SeqsUpTo(SliceRecords, MaxRows) : OrderedByUpdated(t)}

PartitionArgs ==
  [columns_list : {<<"assignee_id">>}, num_of_all_days : 0..MaxDays,
   num_of_interval_days : IntervalDays, end_date : {EndDate - 1, EndDate}]

InitPartition ==
  /\ ObjIdle
  /\ args \in PartitionArgs
  /\ df_slice \in Slices
  /\ intervals = <<>>
  /\ num_tasks_per_week = <<>>
  /\ num_tasks_per_current_week = 0
  /\ stats = None
  /\ score_value = 0
  /\ pc = "start"
  /\ np_round \in BOOLEAN

\* lines 176-218; an exception leaves the locals unassigned.
Partition ==
  \E b \in {PartitionBody(df_slice, args.end_date, args.num_of_all_days,
                          args.num_of_interval_days)} :
      /\ pc = "start"
      /\ pc' = IF b.exc = NoException THEN "done" ELSE b.exc
      /\ IF b.exc = NoException
           THEN /\ intervals' = b.intervals
                /\ num_tasks_per_week' = b.num_tasks_per_week
                /\ num_tasks_per_current_week' = b.num_tasks_per_current_week
                /\ stats' = b.stats
                /\ score_value' = b.score_value
           ELSE UNCHANGED <<intervals, num_tasks_per_week,
                            num_tasks_per_current_week, stats, score_value>>
      /\ UNCHANGED <<table, args, objVars, df_slice, np_round>>

NextPartition == Partition

SpecPartition == InitPartition /\ [][NextPartition]_vars

----------------------------------------------------------------------------
(***************************************************************************)
(* Lines 201-218 on their own, applied to a list of history counts.        *)
(***************************************************************************)
Counts == 0..MaxCount

\* The loop of line 188 leaves num_of_intervals - 1 history counts.
InitStats ==
  /\ ObjIdle
  /\ args \in [columns_list : {<<"assignee_id">>},
               num_of_all_days : 0..(MaxBaseline + 1),
               num_of_interval_days : {-1, 1}, end_date : {EndDate}]
  /\ df_slice = <<>>
  /\ intervals = <<>>
  /\ LET n == NumOfIntervals(args.num_of_all_days,
                             args.num_of_interval_days)
     IN  /\ num_tasks_per_week \in
              [1..(IF n > 1 THEN n - 1 ELSE 0) -> Counts]
         /\ num_tasks_per_current_week \in (IF n >= 1 THEN Counts ELSE {0})
  /\ stats = None
  /\ score_value = 0
  /\ pc = "start"
  /\ np_round \in BOOLEAN

\* lines 201-218
Statistics ==
  \E st \in {CalcStats(num_tasks_per_week,
                       NumOfIntervals(args.num_of_all_days,
                                      args.num_of_interval_days))} :
      /\ pc = "start"
      /\ pc' = IF st.exc = NoException THEN "done" ELSE st.exc
      /\ IF st.exc = NoException
           THEN /\ stats' = st
                /\ score_value' =
                     CalcWorkloadScore(st.left_border, st.right_border,
                                       num_tasks_per_current_week)
           ELSE UNCHANGED <<stats, score_value>>
      /\ UNCHANGED <<table, args, objVars, df_slice, intervals,
                     num_tasks_per_week, num_tasks_per_current_week,
                     np_round>>

NextStats == Statistics

SpecStats == InitStats /\ [][NextStats]_vars

----------------------------------------------------------------------------
(***************************************************************************)
(* __calc_workload_score on its own, lines 403-414.                        *)
(***************************************************************************)
Borders == (-2)..(MaxCount + 1)

InitScore ==
  /\ ObjIdle
  /\ args = None
  /\ df_slice = <<>>
  /\ intervals = <<>>
  /\ num_tasks_per_week = <<>>
  /\ num_tasks_per_current_week \in Counts
  /\ stats \in [left_border : Borders, right_border : Borders]
  /\ score_value = 0
  /\ pc = "start"
  /\ np_round = TRUE

\* lines 403-414
Score ==
  /\ pc = "start"
  /\ pc' = "done"
  /\ score_value' = CalcWorkloadScore(stats.left_border, stats.right_border,
                                      num_tasks_per_current_week)
  /\ UNCHANGED <<table, args, objVars, df_slice, intervals,
                 num_tasks_per_week, num_tasks_per_current_week, stats,
                 np_round>>

NextScore == Score

SpecScore == InitScore /\ [][NextScore]_vars

----------------------------------------------------------------------------
(***************************************************************************)
(* Properties of workload_scoring as a whole, under Spec.                  *)
(***************************************************************************)
Called == ret \notin {"no call", "load data"}

\* At least one dimension, a positive interval, two windows or more.
ValidConfiguration ==
  /\ Len(args.columns_list) >= 1
  /\ args.num_of_interval_days > 0
  /\ args.num_of_all_days \div args.num_of_interval_days >= 2

NoDuplicateColumn ==
  \A i, j \in DOMAIN args.columns_list :
     args.columns_list[i] = args.columns_list[j] => i = j

DistinctValues(column) ==
  {raw_df.rows[k][column] : k \in DOMAIN raw_df.rows}

RECURSIVE ProductOfCounts(_)
ProductOfCounts(columns) ==
  IF columns = <<>> THEN 1
  ELSE Cardinality(DistinctValues(Head(columns)))
         * ProductOfCounts(Tail(columns))

\* The Cartesian product of the values seen in each dimension column.
DimensionTuples ==
  {t \in [DOMAIN args.columns_list -> AssigneeIds \cup Countries] :
     \A i \in DOMAIN args.columns_list :
        t[i] \in DistinctValues(args.columns_list[i])}

\* The rows of the output table that carry the tuple t.
RowsOf(t) ==
  {j \in 1..Len(out_df["score_value"]) :
     \A i \in DOMAIN args.columns_list : out_df[args.columns_list[i]][j] = t[i]}

\* C1: after a call that completes on a loaded record set with one or more
\* dimension columns, the output table has as many rows as the product of
\* the per-dimension distinct-value counts, and every tuple of the
\* Cartesian product, with or without matching records, has exactly one row.
C1_OneRowPerTuple ==
  (ret = ReturnedNone /\ Len(args.columns_list) >= 1) =>
     /\ Len(out_df["score_value"]) = ProductOfCounts(args.columns_list)
     /\ \A t \in DimensionTuples : Cardinality(RowsOf(t)) = 1

\* Two records, two dimensions of two values each: four rows, two of them
\* for tuples without a record.
C1_Witness ==
  /\ ret = ReturnedNone
  /\ args.columns_list = <<"assignee_id", "country">>
  /\ Len(raw_df.rows) = 2
  /\ Len(out_df["score_value"]) = 4

InvalidConfiguration ==
  \/ Len(args.columns_list) = 0
  \/ args.num_of_interval_days <= 0
  \/ args.num_of_all_days \div args.num_of_interval_days < 2

\* C3: a call with an invalid configuration (no dimension, interval_days
\* <= 0, fewer than 2 windows) fails with a ConfigurationError before any
\* partition is processed, and produces no output table.
C3_InvalidConfigurationFailsFast ==
  (raw_df # None /\ Called /\ InvalidConfiguration) =>
     /\ ret = "ConfigurationError"
     /\ iterations = 0
     /\ out_df = None

\* C4: a call made while raw_df is None raises nothing, returns
\* 'load data' and leaves out_df as it was, whatever the arguments.
C4_LoadDataFirst ==
  [][(raw_df = None /\ WorkloadScoring) =>
       (ret' = "load data" /\ out_df' = out_df)]_vars

C4_Witness == raw_df = None /\ ret = "load data" /\ out_df = None

\* C8: a call that follows a call on the same record set with the same
\* arguments ends the same way and leaves the same output table; no call
\* changes the loaded record set.
C8_Idempotent ==
  [][WorkloadScoring =>
       /\ raw_df' = raw_df
       /\ Called => (out_df' = out_df /\ ret' = ret /\ data' = data)]_vars

C8_Witness ==
  /\ ret = ReturnedNone
  /\ Len(out_df["score_value"]) >= 2
  /\ \E j \in DOMAIN out_df["score_value"] : out_df["count_last_period"][j] > 0

\* The date d lies in one of the windows of the call.
InSomeWindow(d) ==
  \E i \in 0..((args.num_of_all_days \div args.num_of_interval_days) - 1) :
     /\ args.end_date - args.num_of_all_days
          + i * args.num_of_interval_days <= d
     /\ d <= args.end_date - args.num_of_all_days
               + (i + 1) * args.num_of_interval_days

RecordsOf(t) ==
  {k \in DOMAIN raw_df.rows :
     \A i \in DOMAIN args.columns_list :
        raw_df.rows[k][args.columns_list[i]] = t[i]}

\* No record of the tuple t falls in a window.
Degenerate(t) == \A k \in RecordsOf(t) : ~InSomeWindow(raw_df.rows[k].updated)

\* C9: under a valid configuration no pass of the loop raises; the call
\* returns (unless a column is listed twice), and the row of a tuple whose
\* records fall in no window has current count 0, mean 0, standard error 0
\* and score 0.
C9_DegenerateTupleScoresZero ==
  (raw_df # None /\ Called /\ ValidConfiguration) =>
     /\ Len(data["score_value"]) = iterations
     /\ NoDuplicateColumn =>
          /\ ret = ReturnedNone
          /\ \A t \in DimensionTuples :
                Degenerate(t) =>
                  \A j \in RowsOf(t) :
                     /\ out_df["count_last_period"][j] = 0
                     /\ out_df["count_mean_calc_period"][j] = 0
                     /\ out_df["count_sem_calc_period"][j] = 0
                     /\ out_df["score_value"][j] = 0

\* One tuple without any record and one whose record lies outside the
\* windows, both with a row.
C9_Witness ==
  /\ raw_df # None /\ ret = ReturnedNone
  /\ ValidConfiguration /\ NoDuplicateColumn
  /\ \E t1, t2 \in DimensionTuples :
        /\ RecordsOf(t1) = {} /\ RowsOf(t1) # {}
        /\ RecordsOf(t2) # {} /\ Degenerate(t2) /\ RowsOf(t2) # {}

----------------------------------------------------------------------------
(***************************************************************************)
(* Properties of one pass of the loop, under SpecPartition.                *)
(***************************************************************************)
\* C5: with interval_days > 0 and at least 2 windows there are
\* floor(total_days / interval_days) windows of interval_days each, oldest
\* first, each starting where the one before ends, and the last one ends at
\* end_date, whether or not total_days is a multiple of interval_days.
C5_LastWindowEndsAtEndDate ==
  (pc = "done" /\ args.num_of_interval_days > 0
     /\ args.num_of_all_days \div args.num_of_interval_days >= 2) =>
     /\ Len(intervals) = args.num_of_all_days \div args.num_of_interval_days
     /\ \A k \in DOMAIN intervals :
           intervals[k][2] - intervals[k][1] = args.num_of_interval_days
     /\ \A k \in 1..(Len(intervals) - 1) :
           intervals[k + 1][1] = intervals[k][2]
     /\ intervals[Len(intervals)][2] = args.end_date

\* The counts of the windows, oldest first, the current one last.
WindowCounts == Append(num_tasks_per_week, num_tasks_per_current_week)

IdsBetween(lo, hi) ==
  {df_slice[j].id :
     j \in {j \in DOMAIN df_slice :
              lo <= df_slice[j].updated /\ df_slice[j].updated <= hi}}

----------------------------------------------------------------------------
(***************************************************************************)
(* Properties of the statistics, under SpecStats.                          *)
(***************************************************************************)
\* s is a hundredth nearest to std / sqrt(n).
NearestToStdOverSqrt(s, std, n) ==
  /\ 4 * std * std <= n * (2 * s + 1) * (2 * s + 1)
  /\ s = 0 \/ n * (2 * s - 1) * (2 * s - 1) <= 4 * std * std

\* C6: the standard error is the standard deviation divided by the square
\* root of the number of baseline windows (window_count - 1), rounded to 2
\* decimals.
C6_StandardErrorOverBaselineCount ==
  pc = "done" =>
     NearestToStdOverSqrt(stats.ste, stats.std, Len(num_tasks_per_week))

\* v is a hundredth nearest to x / n.
NearestToQuotient(v, x, n) == 2 * Abs(v * n - x) <= n

\* C7 as stated: the variance is the sum of squared deviations divided by
\* n - 1, n the number of baseline windows; baseline [2,4,3] gives 1.0.
C7_SampleVariance ==
  (pc = "done" /\ Len(num_tasks_per_week) >= 2) =>
     /\ NearestToQuotient(stats.var, stats.x_sum,
                          Len(num_tasks_per_week) - 1)
     /\ num_tasks_per_week = <<2, 4, 3>> => stats.var = 100

SquaredDeviations ==
  [i \in DOMAIN num_tasks_per_week |->
     RoundHalfEven((100 * num_tasks_per_week[i] - stats.avg)
                     * (100 * num_tasks_per_week[i] - stats.avg), 100)]

\* C7 amended: the variance is the population variance, the sum of the
\* squared deviations of the baseline counts from their mean divided by n,
\* the number of baseline windows, rounded to 2 decimals; baseline [2,4,3]
\* gives 0.67.
C7_PopulationVariance ==
  pc = "done" =>
     /\ NearestToQuotient(stats.avg, 100 * SumSeq(num_tasks_per_week),
                          Len(num_tasks_per_week))
     /\ stats.x_sum = SumSeq(SquaredDeviations)
     /\ NearestToQuotient(stats.var, stats.x_sum, Len(num_tasks_per_week))
     /\ num_tasks_per_week = <<2, 4, 3>> => stats.var = 67

C7_Witness ==
  /\ pc = "done"
  /\ num_tasks_per_week = <<2, 4, 3>>
  /\ stats.x_sum = 200
  /\ stats.var = 67

----------------------------------------------------------------------------
(***************************************************************************)
(* Properties of the score, under SpecScore.                               *)
(***************************************************************************)
Idle ==
  /\ stats.left_border = 0
  /\ num_tasks_per_current_week = 0
  /\ stats.right_border = 0

Under ==
  /\ 0 <= num_tasks_per_current_week
  /\ num_tasks_per_current_week < stats.left_border

Within ==
  /\ stats.left_border <= num_tasks_per_current_week
  /\ num_tasks_per_current_week <= stats.right_border

\* C2: for all borders and every non-negative current count the score is
\* that of the decision table read in order: all three 0 gives 0; else a
\* count below the left border gives 0; else a count between the borders
\* gives 1; otherwise 2.  The score is one of 0, 1, 2.
C2_DecisionTable ==
  pc = "done" =>
     /\ score_value \in {0, 1, 2}
     /\ Idle => score_value = 0
     /\ (~Idle /\ Under) => score_value = 0
     /\ (~Idle /\ ~Under /\ Within) => score_value = 1
     /\ (~Idle /\ ~Under /\ ~Within) => score_value = 2

\* A count equal to both borders, above zero: rule 3.
C2_Witness ==
  /\ pc = "done"
  /\ num_tasks_per_current_week > 0
  /\ stats.left_border = num_tasks_per_current_week
  /\ stats.right_border = num_tasks_per_current_week
  /\ score_value = 1

====
